---- MODULE Spec2Model ----
(***************************************************************************)
(* Model of the FRED panel builder (src/src/pull_fred.py, pull_fred) and   *)
(* of the ETF price puller (src/src/pull_mbs_etfs.py, pull_etf_prices).    *)
(*                                                                         *)
(* A pandas Series is a sequence of <<date, value>> rows; a DataFrame is a *)
(* record [index, cols] where index is the sequence of row labels in row   *)
(* order and cols maps a column name to the sequence of its cells, one per *)
(* row.  Dates are the integers 1..MaxDate; the dated literals of the      *)
(* source are placed on that calendar in their source order.  Values are   *)
(* integers, NaN is the cell that holds no number.  The raw values are     *)
(* multiples of Factor * Factor, so that the float division by 1_000 is    *)
(* exact on them, also when it is applied twice.                           *)
(***************************************************************************)
EXTENDS Integers, Sequences, FiniteSets, TLC

VARIABLES
    pc,              \* position of the pull_fred invocation
    series_to_pull,  \* module-level dict (its keys), pull_fred.py:16
    fred,            \* what the FRED endpoint serves: series id -> rows
    start_date,      \* argument of pull_fred
    end_date,        \* argument of pull_fred
    ffill,           \* argument of pull_fred
    series_list,     \* local of pull_fred: series id -> Series
    df,              \* local of pull_fred
    panel,           \* value returned by pull_fred (df_focused)
    saved,           \* fred.parquet, written by __main__
    runs,            \* number of completed runs of __main__
    etf_pc,          \* position of the pull_etf_prices invocation
    yahoo,           \* what yf.download serves: ticker column -> rows
    etf_series,      \* local of pull_etf_prices: column -> Series
    etf_df,          \* local / result of pull_etf_prices
    pc2,             \* position of a second, concurrent pull_fred invocation
    series_list2,    \* its local series_list
    df2,             \* its local df
    panel2,          \* the value it returns
    csv_pc,          \* position of the shaping of one fetched table
    csv_script,      \* which script shapes it: "fred" or "treasury"
    csv_columns,     \* df.columns of the fetched table, in order
    date_col,        \* local date_col
    value_col,       \* local value_col
    w_pc,            \* position of the pull_all_call_reports invocation
    w_open,          \* the WRDS connection is open
    w_closes,        \* number of db.close() calls
    w_rows,          \* local frame of the current pull (its row count)
    w_files,         \* parquet files written: name -> row count
    w_outputs,       \* local outputs: the dataset keys recorded
    w_result,        \* what the caller gets: "none", "returned", "raised"
    ff_pc,           \* position of the download_call_report invocation
    driver,          \* the Chrome driver: "none", "live" or "quit"
    ff_quits,        \* number of driver.quit() calls
    report_date,     \* argument of download_call_report
    available_dates, \* the options of DatesDropDownList, in page order
    selected_date,   \* the option selected in DatesDropDownList, 0 if none
    radio,           \* TSVRadioButton is selected
    clicked,         \* Download_0 was clicked
    printed,         \* the handler printed the error
    shots,           \* number of driver.save_screenshot() calls
    ff_result        \* what the caller gets: "none", "returned", "raised"

vars == <<pc, series_to_pull, fred, start_date, end_date, ffill, series_list,
          df, panel, saved, runs, etf_pc, yahoo, etf_series, etf_df,
          pc2, series_list2, df2, panel2,
          csv_pc, csv_script, csv_columns, date_col, value_col,
          w_pc, w_open, w_closes, w_rows, w_files, w_outputs, w_result,
          ff_pc, driver, ff_quits, report_date, available_dates, selected_date,
          radio, clicked, printed, shots, ff_result>>

conVars == <<pc2, series_list2, df2, panel2>>

csvVars == <<csv_pc, csv_script, csv_columns, date_col, value_col>>

wrdsVars == <<w_pc, w_open, w_closes, w_rows, w_files, w_outputs, w_result>>

ffVars == <<ff_pc, driver, ff_quits, report_date, available_dates, selected_date,
            radio, clicked, printed, shots, ff_result>>

fredVars == <<pc, series_to_pull, fred, start_date, end_date, ffill,
              series_list, df, panel, saved, runs>>

etfVars == <<etf_pc, yahoo, etf_series, etf_df>>

----------------------------------------------------------------------------
(* Bounds *)

MaxDate == 3
MaxObs == 2
MaxObsRerun == 1
MaxObsCfg == 1
MaxObsEtf == 3
MaxObsRaw == 2
MaxObsConc == 1
MaxCols == 3
MaxRowsWrds == 2
MaxListed == 2
MaxRuns == 2

Dates == 1..MaxDate

(* Program constants *)

NaN == -1
Dot == -2
Factor == 1000
AggLimit == 500
AggDate == 3

\* series_to_pull: one representative of each kind of series the builder
\* treats differently: WALCL (rescaled and forward-filled), OBFR
\* (forward-filled only), IORB and IOER (the fallback pair, neither
\* rescaled nor forward-filled).
AllSeries == {"WALCL", "OBFR", "IORB", "IOER"}

\* TICKERS, pull_mbs_etfs.py (its keys: the output columns)
TICKERS == {"rmbs_px", "cmbs_px"}

\* The rule lists of pull_fred, restricted to the series modelled.
millions_to_billions == {"WALCL"}

forward_fill == {"OBFR", "WALCL"}

\* manual_ONRRP_cntypty_limits, its first entries in dict order
\* ("2013-Sep-22": 0, "2013-Sep-23": 1), on dates 1 and 2 of the calendar;
\* the ONRP_AGG_LIMIT date ("2021-07-28") is later than every key: AggDate.
manual_ONRRP_cntypty_limits == << <<1, 0>>, <<2, 1>> >>

----------------------------------------------------------------------------
(* Helpers *)

Range(s) == {s[i] : i \in 1..Len(s)}

SetMax(S) == CHOOSE x \in S : \A y \in S : y <= x

SetMin(S) == CHOOSE x \in S : \A y \in S : x <= y

RECURSIVE SortedSeq(_)
SortedSeq(S) == IF S = {} THEN <<>>
                ELSE <<SetMin(S)>> \o SortedSeq(S \ {SetMin(S)})

RECURSIVE SubsetsUpTo(_, _)
SubsetsUpTo(S, k) ==
    IF k = 0 \/ S = {} THEN {{}}
    ELSE LET x == CHOOSE y \in S : TRUE
             rest == S \ {x}
         IN  SubsetsUpTo(rest, k) \cup {T \cup {x} : T \in SubsetsUpTo(rest, k - 1)}

ColNo(c) == CASE c = "WALCL" -> 1 [] c = "OBFR" -> 2 [] c = "IORB" -> 3
              [] c = "IOER" -> 4 [] c = "rmbs_px" -> 5 [] OTHER -> 6

\* The number a source reports for series c on date t.
RawVal(c, t) == Factor * Factor * (10 * ColNo(c) + t)

\* The served rows of the series ids in cs: obs is the set of <<id, date>>
\* cells that have a row, nans those whose value does not parse as a number.
Served(cs, obs, nans) ==
    [c \in cs |->
        LET idx == SortedSeq({t \in Dates : <<c, t>> \in obs})
        IN  [i \in 1..Len(idx) |->
                <<idx[i], IF <<c, idx[i]>> \in nans THEN Dot
                          ELSE RawVal(c, idx[i])>>]]

SeriesDates(s) == {s[i][1] : i \in 1..Len(s)}

\* The value of Series s at label t (labels are unique in s), NaN if absent.
At(s, t) == IF t \in SeriesDates(s)
            THEN s[CHOOSE i \in 1..Len(s) : s[i][1] = t][2]
            ELSE NaN

EmptyFrame == [index |-> <<>>, cols |-> <<>>]

Columns(d) == DOMAIN d.cols

\* Positions of the rows of d labelled t.
Rows(d, t) == {i \in 1..Len(d.index) : d.index[i] = t}

----------------------------------------------------------------------------
(* pandas operations used by the builder *)

\* pd.to_numeric(..., errors="coerce"): a cell that is not a number (FRED
\* writes "." for a missing observation) becomes NaN.
to_numeric(x) == IF x = Dot THEN NaN ELSE x

\* The rows of d at the positions lo..hi, in order.
SliceRows(d, lo, hi) ==
    [index |-> SubSeq(d.index, lo, hi),
     cols  |-> [c \in Columns(d) |-> SubSeq(d.cols[c], lo, hi)]]

\* df.loc[a:b] on a sorted index: the labels are located by bisection, the
\* slice runs from the first label >= a to the last label <= b.
LocSlice(d, a, b) ==
    LET lo == Cardinality({i \in 1..Len(d.index) : d.index[i] < a}) + 1
        hi == Cardinality({i \in 1..Len(d.index) : d.index[i] <= b})
    IN  SliceRows(d, lo, hi)

\* a.fillna(b) with the operands exchanged.
SeriesFillnaSwapped(a, b) == [i \in 1..Len(a) |-> IF b[i] # NaN THEN b[i] ELSE a[i]]

\* x / 1_000 applied a second time.
DivCellTwice(x) == IF x = NaN THEN NaN ELSE (x \div Factor) \div Factor

\* df.loc[t][c] = v: chained indexing assigns to a copy of an existing row.
SetLocChained(d, t, c, v) ==
    IF Rows(d, t) # {}
    THEN d
    ELSE [index |-> Append(d.index, t),
          cols  |-> [k \in Columns(d) |->
                        Append(d.cols[k], IF k = c THEN v ELSE NaN)]]

\* Series.ffill(): scan in row order carrying the last cell that is not NaN.
SeriesFFill(s) ==
    LET last[i \in 0..Len(s)] ==
            IF i = 0 THEN NaN
            ELSE IF s[i] # NaN THEN s[i] ELSE last[i - 1]
    IN  [i \in 1..Len(s) |-> last[i]]

\* a.fillna(b) for two columns of one frame.
SeriesFillna(a, b) == [i \in 1..Len(a) |-> IF a[i] # NaN THEN a[i] ELSE b[i]]

\* x / 1_000 on a cell.
DivCell(x) == IF x = NaN THEN NaN ELSE x \div Factor

\* df[c] = s (new or existing column).
SetColumn(d, c, s) ==
    [d EXCEPT !.cols = [k \in Columns(d) \cup {c} |-> IF k = c THEN s ELSE d.cols[k]]]

\* df[c] = np.nan
NaNColumn(d) == [i \in 1..Len(d.index) |-> NaN]

\* df.loc[t, c] = v: the rows labelled t are assigned in place; when no row
\* is labelled t the frame is enlarged by a row t appended after the last
\* row, NaN in every other column.
SetLoc(d, t, c, v) ==
    IF Rows(d, t) # {}
    THEN [d EXCEPT !.cols[c] = [i \in 1..Len(d.index) |->
                                   IF d.index[i] = t THEN v ELSE d.cols[c][i]]]
    ELSE [index |-> Append(d.index, t),
          cols  |-> [k \in Columns(d) |->
                        Append(d.cols[k], IF k = c THEN v ELSE NaN)]]

\* DataFrame.sort_values("date") and DataFrame.sort_index(): the rows in
\* ascending order of the date, rows of one date in their former order.
SortByDate(d) ==
    LET before(i) == Cardinality({j \in 1..Len(d.index) :
                         \/ d.index[j] < d.index[i]
                         \/ d.index[j] = d.index[i] /\ j < i})
        at(k) == CHOOSE i \in 1..Len(d.index) : before(i) = k - 1
    IN  [index |-> [k \in 1..Len(d.index) |-> d.index[at(k)]],
         cols  |-> [c \in Columns(d) |-> [k \in 1..Len(d.index) |-> d.cols[c][at(k)]]]]

\* df.drop(columns=names, errors="ignore")
DropColumns(d, names) ==
    [d EXCEPT !.cols = [k \in Columns(d) \ names |-> d.cols[k]]]

----------------------------------------------------------------------------
(* _fred_series_csv and the steps of pull_fred *)

\* A fetch that reuses the column of fred.parquet when one was written.
fred_series_cached(series_id) ==
    IF runs >= 1 /\ series_id \in Columns(saved)
    THEN [i \in 1..Len(saved.index) |-> <<saved.index[i], saved.cols[series_id][i]>>]
    ELSE [i \in 1..Len(fred[series_id]) |->
             <<fred[series_id][i][1], to_numeric(fred[series_id][i][2])>>]

_fred_series_csv(series_id) ==
    [i \in 1..Len(fred[series_id]) |->
        <<fred[series_id][i][1], to_numeric(fred[series_id][i][2])>>]

\* The labels of Series s, in row order.
SeriesIndex(s) == [i \in 1..Len(s) |-> s[i][1]]

HasDuplicates(s) == Cardinality(SeriesDates(s)) < Len(s)

SameIndexes(sl) ==
    \A a \in DOMAIN sl : \A b \in DOMAIN sl : SeriesIndex(sl[a]) = SeriesIndex(sl[b])

\* pd.concat(objs, axis=1) raises on an empty list, and when the indexes
\* differ and one of them holds a label twice (it cannot be reindexed).
ConcatRaises(sl) ==
    \/ DOMAIN sl = {}
    \/ ~SameIndexes(sl) /\ \E c \in DOMAIN sl : HasDuplicates(sl[c])

\* pd.concat(series_list, axis=1).sort_index(): when every index is the same
\* it is kept as it is, otherwise the columns are outer-joined on the union
\* of the labels; then the rows are sorted by label.
ConcatSorted(sl) ==
    IF SameIndexes(sl)
    THEN LET one == sl[CHOOSE c \in DOMAIN sl : TRUE]
         IN  SortByDate([index |-> SeriesIndex(one),
                         cols  |-> [c \in DOMAIN sl |->
                                       [i \in 1..Len(one) |-> sl[c][i][2]]]])
    ELSE LET idx == SortedSeq(UNION {SeriesDates(sl[c]) : c \in DOMAIN sl})
         IN  [index |-> idx,
              cols  |-> [c \in DOMAIN sl |->
                            [i \in 1..Len(idx) |-> At(sl[c], idx[i])]]]

RECURSIVE ConvertUnits(_, _)
ConvertUnits(d, todo) ==
    IF todo = {} THEN d
    ELSE LET s == CHOOSE x \in todo : TRUE
             nd == IF s \in Columns(d)
                   THEN SetColumn(d, s, [i \in 1..Len(d.index) |-> DivCell(d.cols[s][i])])
                   ELSE d
         IN  ConvertUnits(nd, todo \ {s})

\* df = df.ffill(): every column filled, whatever the list names.
FillForwardAll(d, todo) ==
    [d EXCEPT !.cols = [c \in Columns(d) |->
        [i \in 1..Len(d.index) |->
            LET js == {j \in 1..i : d.cols[c][j] # NaN}
            IN  IF js = {} THEN NaN ELSE d.cols[c][SetMax(js)]]]]

RECURSIVE FillForward(_, _)
FillForward(d, todo) ==
    IF todo = {} THEN d
    ELSE LET s == CHOOSE x \in todo : TRUE
             nd == IF s \in Columns(d)
                   THEN SetColumn(d, s, SeriesFFill(d.cols[s]))
                   ELSE d
         IN  FillForward(nd, todo \ {s})

GenIORB(d) ==
    IF "IORB" \in Columns(d) /\ "IOER" \in Columns(d)
    THEN SetColumn(d, "Gen_IORB", SeriesFillna(d.cols["IORB"], d.cols["IOER"]))
    ELSE SetColumn(d, "Gen_IORB", NaNColumn(d))

RECURSIVE ApplyLimits(_, _, _)
ApplyLimits(d, c, items) ==
    IF items = <<>> THEN d
    ELSE ApplyLimits(SetLoc(d, Head(items)[1], c, Head(items)[2]), c, Tail(items))

CtpyLimit(d) ==
    LET d1 == SetColumn(d, "ONRRP_CTPY_LIMIT", NaNColumn(d))
        d2 == ApplyLimits(d1, "ONRRP_CTPY_LIMIT", manual_ONRRP_cntypty_limits)
    IN  SetColumn(d2, "ONRRP_CTPY_LIMIT", SeriesFFill(d2.cols["ONRRP_CTPY_LIMIT"]))

AggLimitStep(d) ==
    LET d1 == SetColumn(d, "ONRP_AGG_LIMIT", NaNColumn(d))
        d2 == SetLoc(d1, AggDate, "ONRP_AGG_LIMIT", AggLimit)
    IN  SetColumn(d2, "ONRP_AGG_LIMIT", SeriesFFill(d2.cols["ONRP_AGG_LIMIT"]))

Focused(d) == DropColumns(d, {"IORR", "IOER", "IORB"})

----------------------------------------------------------------------------
(* Actions of pull_fred and of __main__ *)

\* lines 108-112: fetch every series, join, sort.
Pull ==
    /\ pc = "pull"
    /\ series_list' = [c \in series_to_pull |-> _fred_series_csv(c)]
    /\ IF ConcatRaises(series_list')
       THEN pc' = "error" /\ df' = df
       ELSE pc' = "clip" /\ df' = ConcatSorted(series_list')
    /\ UNCHANGED <<series_to_pull, fred, start_date, end_date, ffill, panel, saved,
                   runs, etfVars, conVars, csvVars, wrdsVars, ffVars>>

\* line 115
Clip ==
    /\ pc = "clip"
    /\ df' = LocSlice(df, start_date, end_date)
    /\ pc' = "units"
    /\ UNCHANGED <<series_to_pull, fred, start_date, end_date, ffill, series_list,
                   panel, saved, runs, etfVars, conVars, csvVars, wrdsVars, ffVars>>

\* lines 117-121
Units ==
    /\ pc = "units"
    /\ df' = ConvertUnits(df, millions_to_billions)
    /\ pc' = "ffill"
    /\ UNCHANGED <<series_to_pull, fred, start_date, end_date, ffill, series_list,
                   panel, saved, runs, etfVars, conVars, csvVars, wrdsVars, ffVars>>

\* lines 123-138
FFill ==
    /\ pc = "ffill"
    /\ df' = IF ffill THEN FillForward(df, forward_fill) ELSE df
    /\ pc' = "fallback"
    /\ UNCHANGED <<series_to_pull, fred, start_date, end_date, ffill, series_list,
                   panel, saved, runs, etfVars, conVars, csvVars, wrdsVars, ffVars>>

\* lines 140-144
Fallback ==
    /\ pc = "fallback"
    /\ df' = GenIORB(df)
    /\ pc' = "ctpy"
    /\ UNCHANGED <<series_to_pull, fred, start_date, end_date, ffill, series_list,
                   panel, saved, runs, etfVars, conVars, csvVars, wrdsVars, ffVars>>

\* lines 146-151
Ctpy ==
    /\ pc = "ctpy"
    /\ df' = CtpyLimit(df)
    /\ pc' = "agg"
    /\ UNCHANGED <<series_to_pull, fred, start_date, end_date, ffill, series_list,
                   panel, saved, runs, etfVars, conVars, csvVars, wrdsVars, ffVars>>

\* lines 153-156
Agg ==
    /\ pc = "agg"
    /\ df' = AggLimitStep(df)
    /\ pc' = "return"
    /\ UNCHANGED <<series_to_pull, fred, start_date, end_date, ffill, series_list,
                   panel, saved, runs, etfVars, conVars, csvVars, wrdsVars, ffVars>>

\* lines 158-160
Return ==
    /\ pc = "return"
    /\ panel' = Focused(df)
    /\ pc' = "done"
    /\ UNCHANGED <<series_to_pull, fred, start_date, end_date, ffill, series_list,
                   df, saved, runs, etfVars, conVars, csvVars, wrdsVars, ffVars>>

\* __main__, lines 180-186: the returned frame is written to fred.parquet.
Save ==
    /\ pc = "done"
    /\ saved' = panel
    /\ runs' = runs + 1
    /\ pc' = "saved"
    /\ UNCHANGED <<series_to_pull, fred, start_date, end_date, ffill, series_list,
                   df, panel, etfVars, conVars, csvVars, wrdsVars, ffVars>>

\* The script is run again (dodo.py, task_pull): a fresh invocation,
\* the endpoint serving what it served before.
Rerun ==
    /\ pc = "saved"
    /\ runs < MaxRuns
    /\ pc' = "pull"
    /\ series_list' = <<>>
    /\ df' = EmptyFrame
    /\ panel' = EmptyFrame
    /\ UNCHANGED <<series_to_pull, fred, start_date, end_date, ffill, saved, runs,
                   etfVars, conVars, csvVars, wrdsVars, ffVars>>

\* The script is run again with the same arguments after the endpoint has
\* revised what it serves: pull_fred fetches inside the call (lines 108-110).
RerunRevised ==
    /\ pc = "saved"
    /\ runs < MaxRuns
    /\ pc' = "pull"
    /\ \E obs \in SubsetsUpTo(series_to_pull \X Dates, MaxObsRerun) :
         \E nans \in SUBSET obs : fred' = Served(series_to_pull, obs, nans)
    /\ series_list' = <<>>
    /\ df' = EmptyFrame
    /\ panel' = EmptyFrame
    /\ UNCHANGED <<series_to_pull, start_date, end_date, ffill, saved, runs,
                   etfVars, conVars, csvVars, wrdsVars, ffVars>>

----------------------------------------------------------------------------
(* A second invocation of pull_fred, running concurrently with the first,
   called with the default arguments: the whole calendar, ffill=True.  It
   reads the same module-level series_to_pull and the same endpoint. *)

\* A fetch loop that consumes the module-level dict while it iterates.
Pull2Consuming ==
    /\ pc2 = "pull"
    /\ series_list2' = [c \in series_to_pull |-> _fred_series_csv(c)]
    /\ series_to_pull' = {}
    /\ IF ConcatRaises(series_list2')
       THEN pc2' = "error" /\ df2' = df2
       ELSE pc2' = "clip" /\ df2' = ConcatSorted(series_list2')
    /\ UNCHANGED <<pc, fred, start_date, end_date, ffill, series_list, df, panel,
                   saved, runs, panel2, etfVars, csvVars, wrdsVars, ffVars>>

\* lines 108-112
Pull2 ==
    /\ pc2 = "pull"
    /\ series_list2' = [c \in series_to_pull |-> _fred_series_csv(c)]
    /\ IF ConcatRaises(series_list2')
       THEN pc2' = "error" /\ df2' = df2
       ELSE pc2' = "clip" /\ df2' = ConcatSorted(series_list2')
    /\ UNCHANGED <<panel2, fredVars, etfVars, csvVars, wrdsVars, ffVars>>

\* line 115
Clip2 ==
    /\ pc2 = "clip"
    /\ df2' = LocSlice(df2, 1, MaxDate)
    /\ pc2' = "units"
    /\ UNCHANGED <<series_list2, panel2, fredVars, etfVars, csvVars, wrdsVars, ffVars>>

\* lines 117-121
Units2 ==
    /\ pc2 = "units"
    /\ df2' = ConvertUnits(df2, millions_to_billions)
    /\ pc2' = "ffill"
    /\ UNCHANGED <<series_list2, panel2, fredVars, etfVars, csvVars, wrdsVars, ffVars>>

\* lines 123-138
FFill2 ==
    /\ pc2 = "ffill"
    /\ df2' = FillForward(df2, forward_fill)
    /\ pc2' = "fallback"
    /\ UNCHANGED <<series_list2, panel2, fredVars, etfVars, csvVars, wrdsVars, ffVars>>

\* lines 140-144
Fallback2 ==
    /\ pc2 = "fallback"
    /\ df2' = GenIORB(df2)
    /\ pc2' = "ctpy"
    /\ UNCHANGED <<series_list2, panel2, fredVars, etfVars, csvVars, wrdsVars, ffVars>>

\* lines 146-151
Ctpy2 ==
    /\ pc2 = "ctpy"
    /\ df2' = CtpyLimit(df2)
    /\ pc2' = "agg"
    /\ UNCHANGED <<series_list2, panel2, fredVars, etfVars, csvVars, wrdsVars, ffVars>>

\* lines 153-156
Agg2 ==
    /\ pc2 = "agg"
    /\ df2' = AggLimitStep(df2)
    /\ pc2' = "return"
    /\ UNCHANGED <<series_list2, panel2, fredVars, etfVars, csvVars, wrdsVars, ffVars>>

\* lines 158-160
Return2 ==
    /\ pc2 = "return"
    /\ panel2' = Focused(df2)
    /\ pc2' = "done"
    /\ UNCHANGED <<series_list2, df2, fredVars, etfVars, csvVars, wrdsVars, ffVars>>

----------------------------------------------------------------------------
(* Shaping a fetched CSV table: _fred_series_csv (pull_fred.py) and main
   (pull_treasury_price_index.py) *)

SERIES_ID == "NASDAQNCPXT"

\* The series id the script asks the endpoint for.
RequestedId(script) == IF script = "treasury" THEN SERIES_ID ELSE "WALCL"

\* The names a column of the fetched table can have.
ColumnNames ==
    {"DATE", "observation_date", "date", "Date", "WALCL", SERIES_ID, "VALUE"}

\* The date column candidates, in the order the script tries them.
Candidates(script) ==
    IF script = "treasury"
    THEN <<"DATE", "date", "observation_date", "Date">>
    ELSE <<"DATE", "observation_date", "date", "Date">>

\* The tables with 1..MaxCols distinctly named columns.
Tables ==
    {cols \in UNION {[1..n -> ColumnNames] : n \in 1..MaxCols} :
        \A i \in 1..Len(cols) : \A j \in 1..Len(cols) : cols[i] = cols[j] => i = j}

\* pull_fred.py 78-87, pull_treasury_price_index.py 35-45: the first
\* candidate that is a column; RuntimeError when none is.
FindDateCol ==
    /\ csv_pc = "date"
    /\ LET cands == Candidates(csv_script)
           hits == {k \in 1..Len(cands) : cands[k] \in Range(csv_columns)}
       IN  IF hits = {}
           THEN csv_pc' = "error" /\ date_col' = "None"
           ELSE csv_pc' = "value" /\ date_col' = cands[SetMin(hits)]
    /\ UNCHANGED <<csv_script, csv_columns, value_col, fredVars, etfVars, conVars,
                   wrdsVars, ffVars>>

\* pull_fred.py 90, pull_treasury_price_index.py 48: the column named after
\* the series id, otherwise the last column.
PickValueCol ==
    /\ csv_pc = "value"
    /\ value_col' = IF RequestedId(csv_script) \in Range(csv_columns)
                    THEN RequestedId(csv_script)
                    ELSE csv_columns[Len(csv_columns)]
    /\ csv_pc' = "done"
    /\ UNCHANGED <<csv_script, csv_columns, date_col, fredVars, etfVars, conVars,
                   wrdsVars, ffVars>>

----------------------------------------------------------------------------
(* pull_all_call_reports, pull_call_reports_wrds.py *)

\* The dataset keys, in the order of the four pull-and-save blocks.
OutputKeys == <<"RCFD_Series_1", "RCFD_Series_2", "RCON_Series_1", "RCON_Series_2">>

\* The block the try body is in: one more than the outputs recorded so far.
Block == Cardinality(w_outputs) + 1

\* A statement of the try body raises with no handler around the body.
RaisedUnguarded ==
    /\ w_pc' = "done"
    /\ w_result' = "raised"

\* A statement of the try body raises: control goes to the finally clause
\* with the exception pending (lines 321, 346).
Raised ==
    /\ w_pc' = "finally"
    /\ w_result' = "raising"

\* line 317, _require_wrds_username: ValueError when WRDS_USERNAME is unset.
RequireUser ==
    /\ w_pc = "user"
    /\ \E is_set \in BOOLEAN :
          IF is_set
          THEN w_pc' = "connect" /\ w_result' = w_result
          ELSE w_pc' = "done" /\ w_result' = "raised"
    /\ UNCHANGED <<w_open, w_closes, w_rows, w_files, w_outputs, fredVars, etfVars,
                   conVars, csvVars, ffVars>>

\* line 318, _connect_wrds: the connection is opened, or the login raises.
Connect ==
    /\ w_pc = "connect"
    /\ \E ok \in BOOLEAN :
          IF ok
          THEN w_pc' = "pull" /\ w_open' = TRUE /\ w_result' = w_result
          ELSE w_pc' = "done" /\ w_open' = w_open /\ w_result' = "raised"
    /\ UNCHANGED <<w_closes, w_rows, w_files, w_outputs, fredVars, etfVars, conVars,
                   csvVars, ffVars>>

\* lines 323, 329, 335, 341: the query of the block returns a table of n rows
\* or raises.
PullStep ==
    /\ w_pc = "pull"
    /\ \E ok \in BOOLEAN : \E n \in 0..MaxRowsWrds :
          IF ok
          THEN w_pc' = "save" /\ w_rows' = n /\ w_result' = w_result
          ELSE Raised /\ w_rows' = w_rows
    /\ UNCHANGED <<w_open, w_closes, w_files, w_outputs, fredVars, etfVars, conVars,
                   csvVars, ffVars>>

\* lines 324-326, 330-332, 336-338, 342-344: the table is written and its
\* path recorded, or the write raises.
SaveStep ==
    /\ w_pc = "save"
    /\ \E ok \in BOOLEAN :
          IF ok
          THEN /\ w_files' = Append(w_files, <<OutputKeys[Block], w_rows>>)
               /\ w_outputs' = w_outputs \cup {OutputKeys[Block]}
               /\ w_pc' = IF Block = Len(OutputKeys) THEN "finally" ELSE "pull"
               /\ w_result' = w_result
          ELSE Raised /\ w_files' = w_files /\ w_outputs' = w_outputs
    /\ UNCHANGED <<w_open, w_closes, w_rows, fredVars, etfVars, conVars, csvVars, ffVars>>

\* lines 346-349: db.close() in the finally clause, then the return of
\* outputs or the pending exception.
Close ==
    /\ w_pc = "finally"
    /\ w_open' = FALSE
    /\ w_closes' = w_closes + 1
    /\ w_result' = IF w_result = "raising" THEN "raised" ELSE "returned"
    /\ w_pc' = "done"
    /\ UNCHANGED <<w_rows, w_files, w_outputs, fredVars, etfVars, conVars, csvVars, ffVars>>

----------------------------------------------------------------------------
(* FFIECDownloader.download_call_report, pull_ffiec_hashir.py *)

\* The option lists the page can show: up to MaxListed distinct dates.
DateLists ==
    {l \in UNION {[1..n -> Dates] : n \in 0..MaxListed} :
        \A i \in 1..Len(l) : \A j \in 1..Len(l) : l[i] = l[j] => i = j}

\* A statement of the try body raises: control goes to the handler of
\* line 102.
Caught == ff_pc' = "except"

\* line 44, webdriver.Chrome: the driver is created, or the constructor
\* raises before the try.
CreateDriver ==
    /\ ff_pc = "create"
    /\ \E ok \in BOOLEAN :
          IF ok
          THEN ff_pc' = "get" /\ driver' = "live" /\ ff_result' = ff_result
          ELSE ff_pc' = "done" /\ driver' = driver /\ ff_result' = "raised"
    /\ UNCHANGED <<ff_quits, report_date, available_dates, selected_date, radio,
                   clicked, printed, shots, fredVars, etfVars, conVars, csvVars,
                   wrdsVars>>

\* lines 47-51: driver.get.
GetPage ==
    /\ ff_pc = "get"
    /\ \E ok \in BOOLEAN : IF ok THEN ff_pc' = "products" ELSE Caught
    /\ UNCHANGED <<driver, ff_quits, report_date, available_dates, selected_date,
                   radio, clicked, printed, shots, ff_result, fredVars, etfVars,
                   conVars, csvVars, wrdsVars>>

\* lines 54-60: wait for ListBox1 and select the product.
SelectProduct ==
    /\ ff_pc = "products"
    /\ \E ok \in BOOLEAN : IF ok THEN ff_pc' = "dates" ELSE Caught
    /\ UNCHANGED <<driver, ff_quits, report_date, available_dates, selected_date,
                   radio, clicked, printed, shots, ff_result, fredVars, etfVars,
                   conVars, csvVars, wrdsVars>>

\* lines 63-82: wait for DatesDropDownList and select report_date, or the
\* first option when report_date is not listed; available_dates[0] raises
\* IndexError on an empty list.
SelectDate ==
    /\ ff_pc = "dates"
    /\ \E ok \in BOOLEAN :
          IF ~ok THEN Caught /\ selected_date' = selected_date
          ELSE IF report_date \in Range(available_dates)
          THEN ff_pc' = "radio" /\ selected_date' = report_date
          ELSE IF available_dates = <<>>
          THEN Caught /\ selected_date' = selected_date
          ELSE ff_pc' = "radio" /\ selected_date' = available_dates[1]
    /\ UNCHANGED <<driver, ff_quits, report_date, available_dates, radio, clicked,
                   printed, shots, ff_result, fredVars, etfVars, conVars, csvVars,
                   wrdsVars>>

\* lines 85-89: click TSVRadioButton unless it is selected.
TabDelimited ==
    /\ ff_pc = "radio"
    /\ \E ok \in BOOLEAN :
          IF ok
          THEN ff_pc' = "click" /\ radio' = TRUE
          ELSE Caught /\ radio' = radio
    /\ UNCHANGED <<driver, ff_quits, report_date, available_dates, selected_date,
                   clicked, printed, shots, ff_result, fredVars, etfVars, conVars,
                   csvVars, wrdsVars>>

\* lines 92-100: click Download_0 and wait for the download.
Download ==
    /\ ff_pc = "click"
    /\ \E ok \in BOOLEAN :
          IF ok
          THEN ff_pc' = "finally" /\ clicked' = TRUE
          ELSE Caught /\ clicked' = clicked
    /\ UNCHANGED <<driver, ff_quits, report_date, available_dates, selected_date,
                   radio, printed, shots, ff_result, fredVars, etfVars, conVars,
                   csvVars, wrdsVars>>

\* lines 102-106: print the error, then driver.save_screenshot, a driver
\* call like the others, which returns or raises inside the handler.
Handler ==
    /\ ff_pc = "except"
    /\ printed' = TRUE
    /\ shots' = shots + 1
    /\ \E ok \in BOOLEAN :
          ff_result' = IF ok THEN ff_result ELSE "raising"
    /\ ff_pc' = "finally"
    /\ UNCHANGED <<driver, ff_quits, report_date, available_dates, selected_date,
                   radio, clicked, fredVars, etfVars, conVars, csvVars, wrdsVars>>

\* lines 108-109: driver.quit() in the finally clause, then the normal
\* return or the exception pending from the handler.
Quit ==
    /\ ff_pc = "finally"
    /\ driver' = "quit"
    /\ ff_quits' = ff_quits + 1
    /\ ff_result' = IF ff_result = "raising" THEN "raised" ELSE "returned"
    /\ ff_pc' = "done"
    /\ UNCHANGED <<report_date, available_dates, selected_date, radio, clicked,
                   printed, shots, fredVars, etfVars, conVars, csvVars, wrdsVars>>

----------------------------------------------------------------------------
(* pull_etf_prices, pull_mbs_etfs.py *)

\* DataFrame.dropna(): the rows that hold NaN in no column, in order.
DropNa(d) ==
    LET keep == SortedSeq({i \in 1..Len(d.index) :
                              \A c \in Columns(d) : d.cols[c][i] # NaN})
    IN  [index |-> [k \in 1..Len(keep) |-> d.index[keep[k]]],
         cols  |-> [c \in Columns(d) |-> [k \in 1..Len(keep) |-> d.cols[c][keep[k]]]]]

\* lines 50-56: one download per ticker; an empty table raises.
EtfDownload ==
    /\ etf_pc = "download"
    /\ IF \E c \in TICKERS : Len(yahoo[c]) = 0
       THEN etf_pc' = "error" /\ etf_series' = etf_series
       ELSE etf_pc' = "shape" /\ etf_series' = [c \in TICKERS |-> yahoo[c]]
    /\ UNCHANGED <<yahoo, etf_df, fredVars, conVars, csvVars, wrdsVars, ffVars>>

\* lines 58-60
EtfShape ==
    /\ etf_pc = "shape"
    /\ etf_df' = SortByDate(DropNa(ConcatSorted(etf_series)))
    /\ etf_pc' = "done"
    /\ UNCHANGED <<yahoo, etf_series, fredVars, conVars, csvVars, wrdsVars, ffVars>>

----------------------------------------------------------------------------
(* Specifications *)

\* The inputs of one invocation: what the endpoint serves (at most n rows
\* over all series), the window and the ffill flag.
InitFred(cs, n) ==
    /\ pc = "pull"
    /\ series_to_pull = cs
    /\ \E obs \in SubsetsUpTo(cs \X Dates, n) :
         \E nans \in SUBSET obs : fred = Served(cs, obs, nans)
    /\ start_date \in Dates
    /\ end_date \in Dates
    /\ ffill \in BOOLEAN
    /\ series_list = <<>>
    /\ df = EmptyFrame
    /\ panel = EmptyFrame
    /\ saved = EmptyFrame
    /\ runs = 0

EtfIdle ==
    /\ etf_pc = "idle"
    /\ yahoo = <<>>
    /\ etf_series = <<>>
    /\ etf_df = EmptyFrame

\* No second invocation.
ConIdle ==
    /\ pc2 = "idle"
    /\ series_list2 = <<>>
    /\ df2 = EmptyFrame
    /\ panel2 = EmptyFrame

\* No table being shaped.
CsvIdle ==
    /\ csv_pc = "idle"
    /\ csv_script = "fred"
    /\ csv_columns = <<>>
    /\ date_col = "None"
    /\ value_col = "None"

\* pull_all_call_reports not invoked.
WrdsIdle ==
    /\ w_pc = "idle"
    /\ w_open = FALSE
    /\ w_closes = 0
    /\ w_rows = 0
    /\ w_files = <<>>
    /\ w_outputs = {}
    /\ w_result = "none"

\* download_call_report not invoked.
FfIdle ==
    /\ ff_pc = "idle"
    /\ driver = "none"
    /\ ff_quits = 0
    /\ report_date = 1
    /\ available_dates = <<>>
    /\ selected_date = 0
    /\ radio = FALSE
    /\ clicked = FALSE
    /\ printed = FALSE
    /\ shots = 0
    /\ ff_result = "none"

Init == InitFred(AllSeries, MaxObs) /\ EtfIdle /\ ConIdle /\ CsvIdle /\ WrdsIdle /\ FfIdle

Next ==
    \/ Pull
    \/ Clip
    \/ Units
    \/ FFill
    \/ Fallback
    \/ Ctpy
    \/ Agg
    \/ Return

Spec == Init /\ [][Next]_vars

\* The script run MaxRuns times against an endpoint that serves the same rows.
InitRerun ==
    InitFred(AllSeries, MaxObsRerun) /\ EtfIdle /\ ConIdle /\ CsvIdle /\ WrdsIdle /\ FfIdle

NextRerun == Next \/ Save \/ Rerun

SpecRerun == InitRerun /\ [][NextRerun]_vars

\* The script run MaxRuns times with the same arguments, the endpoint free
\* to serve other rows to a later run.
NextDrift == Next \/ Save \/ RerunRevised

SpecDrift == InitRerun /\ [][NextDrift]_vars

\* Two invocations of pull_fred interleaved step by step.
InitConc ==
    /\ InitFred(AllSeries, MaxObsConc)
    /\ pc2 = "pull"
    /\ series_list2 = <<>>
    /\ df2 = EmptyFrame
    /\ panel2 = EmptyFrame
    /\ EtfIdle /\ CsvIdle /\ WrdsIdle /\ FfIdle

NextConc ==
    \/ Next
    \/ Pull2
    \/ Clip2
    \/ Units2
    \/ FFill2
    \/ Fallback2
    \/ Ctpy2
    \/ Agg2
    \/ Return2

SpecConc == InitConc /\ [][NextConc]_vars

\* The module-level series_to_pull edited to any subset of the series.
InitCfg ==
    /\ \E cs \in SUBSET AllSeries : InitFred(cs, MaxObsCfg)
    /\ EtfIdle /\ ConIdle /\ CsvIdle /\ WrdsIdle /\ FfIdle

SpecCfg == InitCfg /\ [][Next]_vars

\* The rows of a served series in another shape: in reverse order, or with
\* the first row served twice.
Reshape(rows, shape) ==
    CASE shape = "reversed" -> [i \in 1..Len(rows) |-> rows[Len(rows) + 1 - i]]
      [] shape = "repeated" -> IF rows = <<>> THEN rows ELSE <<rows[1]>> \o rows
      [] OTHER -> rows

\* The endpoint serving rows that are not in strictly increasing date order.
InitRaw ==
    /\ \E obs \in SubsetsUpTo(AllSeries \X Dates, MaxObsRaw) :
         \E shape \in {"sorted", "reversed", "repeated"} :
            fred = [c \in AllSeries |-> Reshape(Served(AllSeries, obs, {})[c], shape)]
    /\ pc = "pull"
    /\ series_to_pull = AllSeries
    /\ start_date \in Dates
    /\ end_date \in Dates
    /\ ffill \in BOOLEAN
    /\ series_list = <<>>
    /\ df = EmptyFrame
    /\ panel = EmptyFrame
    /\ saved = EmptyFrame
    /\ runs = 0
    /\ EtfIdle /\ ConIdle /\ CsvIdle /\ WrdsIdle /\ FfIdle

SpecRaw == InitRaw /\ [][Next]_vars

\* pull_etf_prices alone.
FredIdle ==
    /\ pc = "idle"
    /\ series_to_pull = AllSeries
    /\ fred = <<>>
    /\ start_date = 1
    /\ end_date = MaxDate
    /\ ffill = TRUE
    /\ series_list = <<>>
    /\ df = EmptyFrame
    /\ panel = EmptyFrame
    /\ saved = EmptyFrame
    /\ runs = 0

InitEtf ==
    /\ FredIdle
    /\ ConIdle /\ CsvIdle /\ WrdsIdle /\ FfIdle
    /\ etf_pc = "download"
    /\ \E obs \in SubsetsUpTo(TICKERS \X Dates, MaxObsEtf) :
         \E nans \in SUBSET obs : yahoo = Served(TICKERS, obs, nans)
    /\ etf_series = <<>>
    /\ etf_df = EmptyFrame

NextEtf == EtfDownload \/ EtfShape

SpecEtf == InitEtf /\ [][NextEtf]_vars

----------------------------------------------------------------------------
(* Properties *)

InWindow(t) == start_date <= t /\ t <= end_date

\* The Series the builder gets for series id c.
RawSeries(c) == _fred_series_csv(c)

\* The labels of the joined frame of line 112.
OriginalIndex == UNION {SeriesDates(fred[c]) : c \in series_to_pull}

\* The last cell of s at or before position i that is not NaN.
LastSeen(s, i) ==
    LET js == {j \in 1..i : s[j] # NaN}
    IN  IF js = {} THEN NaN ELSE s[SetMax(js)]

\* Some source reported on a date inside the window.
DataInWindow == \E t \in OriginalIndex : InWindow(t)

\* C1: the index of the returned panel is strictly increasing (sorted by
\* timestamp, no duplicate timestamp); stated for the runs whose window
\* holds data.
C1_IndexStrictlyIncreasing ==
    (pc = "done" /\ DataInWindow) =>
        \A i \in 1..(Len(panel.index) - 1) : panel.index[i] < panel.index[i + 1]

\* C2: the returned panel has no row dated before window_start or after
\* window_end; stated for the runs whose window holds data.
C2_IndexInsideWindow ==
    (pc = "done" /\ DataInWindow) =>
        \A i \in 1..Len(panel.index) : InWindow(panel.index[i])

\* C3: an override (t, c, v) whose date t is a label of the joined frame and
\* inside the window is in the returned panel: column c holds v at row t.
C3_OverridePrecedence ==
    pc = "done" =>
        /\ \A k \in 1..Len(manual_ONRRP_cntypty_limits) :
              LET t == manual_ONRRP_cntypty_limits[k][1]
                  v == manual_ONRRP_cntypty_limits[k][2]
              IN  (t \in OriginalIndex /\ InWindow(t)) =>
                     /\ Rows(panel, t) # {}
                     /\ \A i \in Rows(panel, t) : panel.cols["ONRRP_CTPY_LIMIT"][i] = v
        /\ (AggDate \in OriginalIndex /\ InWindow(AggDate)) =>
              /\ Rows(panel, AggDate) # {}
              /\ \A i \in Rows(panel, AggDate) : panel.cols["ONRP_AGG_LIMIT"][i] = AggLimit

\* C3 witness: both ONRRP override dates are rows of the joined frame inside
\* the window, so the second override lands on a cell the first one would
\* have been carried into.
C3_Witness ==
    /\ pc = "done"
    /\ \A k \in 1..Len(manual_ONRRP_cntypty_limits) :
          /\ manual_ONRRP_cntypty_limits[k][1] \in OriginalIndex
          /\ InWindow(manual_ONRRP_cntypty_limits[k][1])

\* C4: no backward fill.  In a forward-filled column and in the two override
\* columns a cell of the returned panel holds a number only if the column
\* had one at a row dated at or before it, never one from a later date;
\* stated for the runs whose window holds data.
C4_NoBackwardFill ==
    (pc = "done" /\ DataInWindow) =>
        \A i \in 1..Len(panel.index) :
            /\ \A c \in forward_fill \cap Columns(panel) :
                  panel.cols[c][i] # NaN =>
                      \E t \in Dates : t <= panel.index[i] /\ At(RawSeries(c), t) # NaN
            /\ panel.cols["ONRRP_CTPY_LIMIT"][i] # NaN =>
                  \E k \in 1..Len(manual_ONRRP_cntypty_limits) :
                      manual_ONRRP_cntypty_limits[k][1] <= panel.index[i]
            /\ panel.cols["ONRP_AGG_LIMIT"][i] # NaN => AggDate <= panel.index[i]

\* C5: fallback correctness.  Once Gen_IORB is computed, at every row it is
\* IORB where IORB is not NaN, otherwise IOER (NaN when both are NaN), and
\* the returned panel carries that column.
C5_FallbackCorrect ==
    /\ pc \in {"ctpy", "agg", "return", "done"} =>
          \A i \in 1..Len(df.index) :
              df.cols["Gen_IORB"][i] =
                  IF df.cols["IORB"][i] # NaN THEN df.cols["IORB"][i]
                  ELSE df.cols["IOER"][i]
    /\ pc = "done" => panel.cols["Gen_IORB"] = df.cols["Gen_IORB"]

\* C5 witness: a returned panel with a row where IORB is NaN and IOER is not,
\* and a row where IORB is not NaN.
C5_Witness ==
    /\ pc = "done"
    /\ \E i \in 1..Len(df.index) : df.cols["IORB"][i] = NaN /\ df.cols["IOER"][i] # NaN
    /\ \E i \in 1..Len(df.index) : df.cols["IORB"][i] # NaN

\* C6: index unification in pull_etf_prices.  The index of the result is
\* the sorted union of the dates of the ticker series, one cell per column
\* and row: no date on which some ticker reported is left out.
C6_EtfIndexIsUnion ==
    etf_pc = "done" =>
        /\ etf_df.index = SortedSeq(UNION {SeriesDates(yahoo[c]) : c \in TICKERS})
        /\ \A c \in Columns(etf_df) : Len(etf_df.cols[c]) = Len(etf_df.index)

\* C7: unit normalization.  After the conversion step every number in a
\* unit-rule column is a raw observation of that column divided by Factor
\* exactly once (also a number carried forward by the later fill), every
\* number in another raw column is a raw observation unchanged, and at an
\* in-window row where the source reported a number the cell holds it.
C7_UnitsOnce ==
    pc \in {"ffill", "fallback", "ctpy", "agg", "return", "done"} =>
        \A c \in series_to_pull : \A i \in 1..Len(df.index) :
            LET x == df.cols[c][i]
                raw == At(RawSeries(c), df.index[i])
                scale == IF c \in millions_to_billions THEN Factor ELSE 1
            IN  /\ x # NaN => \E t \in Dates : At(RawSeries(c), t) = x * scale
                /\ (raw # NaN /\ InWindow(df.index[i])) => x * scale = raw

\* C7 witness: a returned panel whose unit-rule column WALCL holds a number
\* at a row where the source reported none (a converted value carried
\* forward) and a non-rule column holds a number.
C7_Witness ==
    /\ pc = "done"
    /\ \E i \in 1..Len(df.index) :
          df.cols["WALCL"][i] # NaN /\ At(RawSeries("WALCL"), df.index[i]) = NaN
    /\ \E c \in series_to_pull \ millions_to_billions :
          \E i \in 1..Len(df.index) : df.cols[c][i] # NaN

FillPolicy == IF ffill THEN forward_fill ELSE {}

\* C9: the fill step.  In a column named by the fill policy every cell
\* becomes the most recent cell at or before it that is not NaN (NaN when
\* there is none); in every other column the NaN cells are the same before
\* and after; no row is added or removed.
C9_FillOnlyNamed ==
    [][pc = "ffill" =>
        /\ df'.index = df.index
        /\ Columns(df') = Columns(df)
        /\ \A c \in Columns(df) : \A i \in 1..Len(df.index) :
              IF c \in FillPolicy
              THEN df'.cols[c][i] = LastSeen(df.cols[c], i)
              ELSE (df'.cols[c][i] = NaN) <=> (df.cols[c][i] = NaN)]_vars

\* C9 witness: after the fill step a named column holds a number at a row
\* where the source reported none, and a column that is not named has a NaN.
C9_Witness ==
    /\ pc = "fallback"
    /\ \E c \in forward_fill : \E i \in 1..Len(df.index) :
          df.cols[c][i] # NaN /\ At(RawSeries(c), df.index[i]) = NaN
    /\ \E c \in series_to_pull \ forward_fill : \E i \in 1..Len(df.index) :
          df.cols[c][i] = NaN

\* The columns the rules of pull_fred name.
RuleColumns == millions_to_billions \cup forward_fill \cup {"IORB", "IOER"}

\* C10: when a rule names a column that is not among the series pulled, the
\* build fails: it never returns a panel.
C10_UnknownColumnIsError ==
    ~(RuleColumns \subseteq series_to_pull) => pc # "done"

\* C11: a call with window_start later than window_end fails: it never
\* returns a panel; stated for the runs in which the sources report data.
C11_InvertedWindowIsError ==
    (start_date > end_date /\ OriginalIndex # {}) => pc # "done"

StrictlyIncreasing(idx) == \A i \in 1..(Len(idx) - 1) : idx[i] < idx[i + 1]

\* C12: when a served series has an index that is not strictly increasing
\* (rows out of order, or a date twice) the build fails: it never returns
\* a panel.
C12_UnorderedSeriesIsError ==
    (\E c \in series_to_pull : ~StrictlyIncreasing(SeriesIndex(fred[c]))) =>
        pc # "done"

\* C13: all-or-nothing build.  On a failing input (here: window_start later
\* than window_end) the builder stops at its input checks: no frame is
\* joined, converted, filled or overridden, and no panel is returned.
C13_FailsBeforeAnyWork ==
    (start_date > end_date /\ OriginalIndex # {}) =>
        /\ pc \in {"pull", "error"}
        /\ df = EmptyFrame
        /\ panel = EmptyFrame

\* C14: determinism.  A run of the builder with the arguments of an earlier
\* run returns the panel the earlier run returned, whatever is retrieved
\* while it runs.
C14_Deterministic ==
    (pc = "done" /\ runs >= 1) => panel = saved

\* The panel pull_fred(a, b, f) returns when it runs alone, every step in
\* program order on the series served for the series_to_pull of the source.
Alone(a, b, f) ==
    LET joined == ConcatSorted([c \in AllSeries |-> _fred_series_csv(c)])
        converted == ConvertUnits(LocSlice(joined, a, b), millions_to_billions)
        filled == IF f THEN FillForward(converted, forward_fill) ELSE converted
    IN  Focused(AggLimitStep(CtpyLimit(GenIORB(filled))))

\* C15: concurrent builds are independent.  Under every interleaving of the
\* steps of two invocations the module-level series_to_pull stays as written
\* and each invocation returns the panel it returns when it runs alone.
C15_ConcurrentBuildsIndependent ==
    /\ series_to_pull = AllSeries
    /\ pc = "done" => panel = Alone(start_date, end_date, ffill)
    /\ pc2 = "done" => panel2 = Alone(1, MaxDate, TRUE)

\* C15 witness: both invocations have returned, with different panels, the
\* second one holding a number from the sources.
C15_Witness ==
    /\ pc = "done"
    /\ pc2 = "done"
    /\ panel # panel2
    /\ \E i \in 1..Len(panel2.index) : panel2.cols["WALCL"][i] # NaN

\* The value the returned panel holds for the raw observation of c on date t.
Reported(c, t) ==
    IF c \in millions_to_billions
    THEN At(RawSeries(c), t) \div Factor
    ELSE At(RawSeries(c), t)

\* C16: window clipping is the last step, after forward-fill.  For a
\* carry-forward column whose most recent non-null observation at the first
\* in-window row (a label of the joined frame) lies before window_start, that
\* row of the returned panel holds the pre-window value rather than null.
C16_ClipIsLastStep ==
    (pc = "done" /\ ffill) =>
        \A c \in forward_fill \cap series_to_pull :
            \A i \in 1..Len(panel.index) :
                LET u == panel.index[i]
                    seen == {t \in Dates : t <= u /\ At(RawSeries(c), t) # NaN}
                IN  ( /\ InWindow(u)
                      /\ u \in OriginalIndex
                      /\ \A j \in 1..Len(panel.index) :
                            InWindow(panel.index[j]) => u <= panel.index[j]
                      /\ seen # {}
                      /\ SetMax(seen) < start_date ) =>
                        panel.cols[c][i] = Reported(c, SetMax(seen))

\* The labels of the frame the overrides are written into (line 115).
ClippedIndex == {t \in OriginalIndex : InWindow(t)}

\* The override dates on the counterparty limit column.
LimitDates ==
    {manual_ONRRP_cntypty_limits[k][1] : k \in 1..Len(manual_ONRRP_cntypty_limits)}

\* C17: an override (t, v) on ONRRP_CTPY_LIMIT whose date t is absent from
\* the frame.  After the override step there is one row t, in sorted position,
\* holding v in the column and null in every other column, and every row
\* dated after t, up to the next override, holds v in the column.
C17_AbsentOverrideInserted ==
    pc = "agg" =>
        \A k \in 1..Len(manual_ONRRP_cntypty_limits) :
            LET t == manual_ONRRP_cntypty_limits[k][1]
                v == manual_ONRRP_cntypty_limits[k][2]
            IN  t \notin ClippedIndex =>
                   /\ Cardinality(Rows(df, t)) = 1
                   /\ \A i \in Rows(df, t) :
                         /\ \A j \in 1..Len(df.index) :
                               /\ df.index[j] < t => j < i
                               /\ df.index[j] > t => j > i
                         /\ df.cols["ONRRP_CTPY_LIMIT"][i] = v
                         /\ \A c \in Columns(df) \ {"ONRRP_CTPY_LIMIT"} :
                               df.cols[c][i] = NaN
                   /\ \A j \in 1..Len(df.index) :
                         ( /\ df.index[j] > t
                           /\ \A u \in LimitDates : ~(t < u /\ u <= df.index[j]) ) =>
                             df.cols["ONRRP_CTPY_LIMIT"][j] = v

\* The overrides written into column c, as <<date, value>> pairs.
Overrides(c) ==
    IF c = "ONRRP_CTPY_LIMIT"
    THEN Range(manual_ONRRP_cntypty_limits)
    ELSE {<<AggDate, AggLimit>>}

\* The value of the override on c with the greatest date at or before u.
InForce(c, u) ==
    LET due == {o \in Overrides(c) : o[1] <= u}
    IN  IF due = {} THEN NaN
        ELSE (CHOOSE o \in due : \A q \in due : q[1] <= o[1])[2]

\* C18: overrides carry forward in date order.  In the returned panel, for
\* each override column and each row, the cell equals the value of the
\* override on that column with the greatest date at or before the date of
\* the row, and is null when no override is dated at or before it; stated
\* for the runs whose window holds data.
C18_OverridesCarryForward ==
    (pc = "done" /\ DataInWindow) =>
        \A c \in {"ONRRP_CTPY_LIMIT", "ONRP_AGG_LIMIT"} :
            \A i \in 1..Len(panel.index) :
                panel.cols[c][i] = InForce(c, panel.index[i])

\* Either script shaping any fetched table.
InitCsv ==
    /\ csv_pc = "date"
    /\ csv_script \in {"fred", "treasury"}
    /\ csv_columns \in Tables
    /\ date_col = "None"
    /\ value_col = "None"
    /\ FredIdle /\ EtfIdle /\ ConIdle /\ WrdsIdle /\ FfIdle

NextCsv ==
    \/ FindDateCol
    \/ PickValueCol

SpecCsv == InitCsv /\ [][NextCsv]_vars

\* C19: retrieval fails loudly rather than guessing.  A table with no column
\* named after the requested series id, or with no date column, is never
\* shaped into a raw series, and the value column of a shaped table is the
\* column named after the series id.
C19_FailsLoudly ==
    csv_pc = "done" =>
        /\ RequestedId(csv_script) \in Range(csv_columns)
        /\ date_col \in Range(csv_columns)
        /\ value_col = RequestedId(csv_script)

\* pull_all_call_reports called once.
InitWrds ==
    /\ w_pc = "user"
    /\ w_open = FALSE
    /\ w_closes = 0
    /\ w_rows = 0
    /\ w_files = <<>>
    /\ w_outputs = {}
    /\ w_result = "none"
    /\ FredIdle /\ EtfIdle /\ ConIdle /\ CsvIdle /\ FfIdle

NextWrds ==
    \/ RequireUser
    \/ Connect
    \/ PullStep
    \/ SaveStep
    \/ Close

SpecWrds == InitWrds /\ [][NextWrds]_vars

\* C20: once the WRDS connection is opened it is closed exactly once on
\* every path.  The call never ends with the connection open and never
\* closes twice; it returns only after all four outputs are recorded and the
\* connection closed; when a pull or save raises, no later step runs: the
\* next step is the close, after which the exception reaches the caller.
C20_ClosedExactlyOnce ==
    /\ [](w_closes <= 1)
    /\ [](w_pc = "done" => ~w_open)
    /\ [](w_result = "returned" =>
             w_closes = 1 /\ w_outputs = Range(OutputKeys))
    /\ [](w_result = "raising" => w_open /\ w_closes = 0 /\ w_pc = "finally")
    /\ [][(w_open /\ w_pc' = "done") =>
             (~w_open' /\ w_closes' = w_closes + 1)]_vars
    /\ [][w_result = "raising" =>
             /\ w_result' = "raised"
             /\ w_closes' = 1
             /\ w_files' = w_files
             /\ w_outputs' = w_outputs]_vars

\* C20 witness: the third block raised after two files were written, the
\* connection was closed once and the exception reached the caller.
C20_Witness ==
    /\ w_pc = "done"
    /\ w_result = "raised"
    /\ w_closes = 1
    /\ ~w_open
    /\ Len(w_files) = 2

\* download_call_report called once, for any report date, on a page listing
\* any dates, with the radio button selected or not.
InitFfiec ==
    /\ ff_pc = "create"
    /\ driver = "none"
    /\ ff_quits = 0
    /\ report_date \in Dates
    /\ available_dates \in DateLists
    /\ selected_date = 0
    /\ radio \in BOOLEAN
    /\ clicked = FALSE
    /\ printed = FALSE
    /\ shots = 0
    /\ ff_result = "none"
    /\ FredIdle /\ EtfIdle /\ ConIdle /\ CsvIdle /\ WrdsIdle

NextFfiec ==
    \/ CreateDriver
    \/ GetPage
    \/ SelectProduct
    \/ SelectDate
    \/ TabDelimited
    \/ Download
    \/ Handler
    \/ Quit

SpecFfiec == InitFfiec /\ [][NextFfiec]_vars

\* C21: once the driver is created, download_call_report quits it on every
\* path, and an exception of a page-interaction step does not reach the
\* caller: it is printed, a screenshot is attempted, the download click is
\* skipped and the call returns normally.  When report_date is not listed,
\* the first listed date is selected.
C21_QuitsAndSwallows ==
    /\ (ff_pc = "done" /\ driver # "none") =>
          /\ driver = "quit"
          /\ ff_quits = 1
          /\ ff_result = "returned"
          /\ printed => (shots = 1 /\ ~clicked)
    /\ (ff_pc \in {"radio", "click"} /\ report_date \notin Range(available_dates)) =>
          /\ available_dates # <<>>
          /\ selected_date = available_dates[1]

====
